---- MODULE Spec2Model ----
(***************************************************************************)
(* Famigo backend: the task / assignment / wallet / reward state machine.  *)
(*                                                                         *)
(* The persistent store is modelled table by table (tasks, assignments,    *)
(* rewards, redemptions, wallet balances, the transaction log).  Rows get  *)
(* their id from their position in the table (the source uses uuid4 keys). *)
(* Spec runs every service call as one step (one request at a time);       *)
(* SpecConc runs the same calls as SQLAlchemy sessions that read rows,     *)
(* keep them in the session and write the changed columns at commit;       *)
(* SpecFamily runs the membership registry (families, members, wallets,    *)
(* invites) commit by commit; SpecTeam runs the task life cycle in a       *)
(* family of three.                                                        *)
(* Timestamps are kept only as "stamped or not"; free-text reasons of      *)
(* transactions are left out.                                              *)
(***************************************************************************)
EXTENDS Integers, Sequences, FiniteSets, TLC

\* ---------------------------------------------------------------- bounds
MaxTasks == 1
MaxAssignments == 3
MaxRewards == 1
MaxRedemptions == 1
\* requests served at the same time, each with its own session
NumSessions == 2
MaxInvites == 1

\* ------------------------------------------------------- input domains
\* None of a nullable string column / optional string argument
None == "None"
\* None of a nullable integer foreign key (row ids start at 1)
NoId == 0
\* an optional integer argument is <<>> (None) or <<v>>
NoInt == <<>>

Families == {"F1", "F2"}
\* the FamilyMember rows that can exist: u1 owns F1, u2 joins F1, u3 owns F2
\* and joins F1
Members == {"m1", "m2", "m3", "m4"}
\* the members that have joined where the registry is not the subject; the
\* id of the one who has not resolves to no row
Joined == {"m1", "m2", "m3"}
\* ids a caller can pass
MemberIds == Members
Users == {"u1", "u2", "u3"}
\* approved_by_member_id: the route passes None, the service takes any member
Approvers == {None, "m1"}

family_of == [m \in Members |-> IF m = "m3" THEN "F2" ELSE "F1"]
\* the owner of a family is its PARENT, who joins later is a CHILD
role_of == [m \in Members |-> IF m \in {"m1", "m3"} THEN "PARENT" ELSE "CHILD"]
user_of == [m \in Members |-> CASE m = "m1" -> "u1" [] m = "m2" -> "u2" [] OTHER -> "u3"]

\* TaskCreate.points_value and RewardCreate.cost_points are plain ints
PointValues == {-1, 0, 2}
CostValues == {1, 3}
\* the PATCH bodies tried: the text fields, or a new points_value
UpdatePayloads ==
    {<<"B", "d", "soon", NoInt>>} \cup {<<None, None, None, <<p>>>> : p \in PointValues}

\* ids a caller can pass; an id not stored yet resolves to no row
TaskIds == 1..MaxTasks
AssignmentIds == 1..MaxAssignments
RewardIds == 1..MaxRewards
RedemptionIds == 1..MaxRedemptions
InviteIds == 1..MaxInvites

VARIABLES tasks, assignments, rewards, redemptions, balance, txns, last, sessions,
          families, members, invites

dbvars == <<tasks, assignments, rewards, redemptions, balance, txns>>
\* the membership registry: Family, FamilyMember and FamilyInvite rows (the
\* Wallet rows are the domain of balance)
regvars == <<families, members, invites>>
vars == <<tasks, assignments, rewards, redemptions, balance, txns, last, sessions,
          families, members, invites>>

Sessions == 1..NumSessions

\* ------------------------------------------------------------- rows
Task(fam, title, description, deadline, points, creator) ==
    [family_id |-> fam, title |-> title, description |-> description,
     deadline |-> deadline, status |-> "OPEN", points_value |-> points,
     created_by_member_id |-> creator]

TaskAssignment(task_id, assignee_id) ==
    [task_id |-> task_id, assignee_id |-> assignee_id,
     is_completed |-> FALSE, completed_at |-> None]

Reward(fam, cost) == [family_id |-> fam, cost_points |-> cost, is_active |-> TRUE]

Redemption(reward_id, requester, approver, status, redeemed_at) ==
    [reward_id |-> reward_id, requested_by_member_id |-> requester,
     approved_by_member_id |-> approver, status |-> status,
     redeemed_at |-> redeemed_at]

Transaction(wallet, amount, type, asg, red, by) ==
    [wallet_id |-> wallet, amount |-> amount, type |-> type,
     task_assignment_id |-> asg, redemption_id |-> red,
     created_by_member_id |-> by]

\* the outcome of the latest call: which call, on which row, by whom, and
\* the optional arguments it was given
CallWith(op, id, by, res, args) ==
    [op |-> op, id |-> id, by |-> by, res |-> res, args |-> args]

Call(op, id, by, res) == CallWith(op, id, by, res, <<>>)

\* a session between requests (get_db opens one per request and closes it)
IdleSession ==
    [pc |-> "idle", id |-> NoId, by |-> None, task_id |-> NoId, wallet |-> None,
     read_balance |-> 0, amount |-> 0, loaded_status |-> None, new_status |-> None]

\* a call served alone returns its result; no session is left open
Return(op, id, by, res) ==
    /\ last' = Call(op, id, by, res)
    /\ UNCHANGED <<sessions, regvars>>

ReturnWith(op, id, by, res, args) ==
    /\ last' = CallWith(op, id, by, res, args)
    /\ UNCHANGED <<sessions, regvars>>

\* ------------------------------------------------------------ lookups
\* db.get(Model, id)
Exists(table, id) == id \in DOMAIN table

_get_member(member_id) == member_id \in members

\* ensure_member: the membership of a user in a family, or None
ensure_member(user_id, family_id) ==
    LET ms == {m \in members : user_of[m] = user_id /\ family_of[m] = family_id}
    IN IF ms = {} THEN None ELSE CHOOSE m \in ms : TRUE

\* task.assignments
AssignmentsOf(asgs, task_id) == {a \in DOMAIN asgs : asgs[a].task_id = task_id}

Init ==
    /\ tasks = <<>>
    /\ assignments = <<>>
    /\ rewards = <<>>
    /\ redemptions = <<>>
    /\ balance = [m \in Joined |-> 0]
    /\ txns = <<>>
    /\ last = Call("init", NoId, None, "ok")
    /\ sessions = [s \in Sessions |-> IdleSession]
    /\ families = Families
    /\ members = Joined
    /\ invites = <<>>

\* ------------------------------------------------------------ create_task
create_task(fam, title, description, deadline, points, creator) ==
    /\ Len(tasks) < MaxTasks
    /\ tasks' = Append(tasks, Task(fam, title, description, deadline, points, creator))
    /\ Return("create_task", Len(tasks) + 1, creator, "ok")
    /\ UNCHANGED <<assignments, rewards, redemptions, balance, txns>>

\* ------------------------------------------------------------ assign_task
\* the check of line 50 left out
CrossFamily_Never(assignee_id, task) == FALSE

\* line 50: the assignee must be in the task's family
CrossFamily(assignee_id, task) == family_of[assignee_id] # task.family_id

\* lines 53-57: the assignments already stored for (task_id, assignee_id)
ExistingAssignments(asgs, task_id, assignee_id) ==
    {a \in DOMAIN asgs : asgs[a].task_id = task_id /\ asgs[a].assignee_id = assignee_id}

\* lines 63-64: the first assignment opens the task
StatusAfterAssign(status) == IF status = "OPEN" THEN "IN_PROGRESS" ELSE status

assign_task(task_id, assignee_id) ==
    IF ~Exists(tasks, task_id) \/ ~_get_member(assignee_id)
    THEN /\ Return("assign_task", task_id, assignee_id, "not_found")
         /\ UNCHANGED dbvars
    ELSE IF CrossFamily(assignee_id, tasks[task_id])
    THEN /\ Return("assign_task", task_id, assignee_id, "cross_family")
         /\ UNCHANGED dbvars
    ELSE IF ExistingAssignments(assignments, task_id, assignee_id) # {}
    THEN /\ Return("assign_task", task_id, assignee_id, "existing")
         /\ UNCHANGED dbvars
    ELSE /\ Len(assignments) < MaxAssignments
         /\ assignments' = Append(assignments, TaskAssignment(task_id, assignee_id))
         /\ tasks' = [tasks EXCEPT ![task_id].status = StatusAfterAssign(@)]
         /\ Return("assign_task", task_id, assignee_id, "ok")
         /\ UNCHANGED <<rewards, redemptions, balance, txns>>

\* ---------------------------------------------------- complete_assignment
\* the check of line 74 left out
NotAssignee_Never(a, by_member_id) == FALSE

\* line 74: only the assignee completes
NotAssignee(a, by_member_id) == a.assignee_id # by_member_id

\* the check of line 76 left out
AlreadyCompleted_Never(a) == FALSE

\* line 76: already completed -> idempotent
AlreadyCompleted(a) == a.is_completed

\* line 82 left out: completed, but completed_at not stamped
MarkCompleted_Unstamped(a) == [a EXCEPT !.is_completed = TRUE]

\* lines 81-82
MarkCompleted(a) == [a EXCEPT !.is_completed = TRUE, !.completed_at = "stamped"]

\* line 87: if task and wallet and task.points_value
ShouldCredit(has_task, has_wallet, points) == has_task /\ has_wallet /\ points # 0

\* line 88 left out: the balance stays as read
Credited_Not(read_balance, points) == read_balance

\* line 88: wallet.balance += task.points_value, on the balance the session read
Credited(read_balance, points) == read_balance + points

\* lines 89-96
EarnTxn(wallet, points, assignment_id, by) ==
    Transaction(wallet, points, "EARN", assignment_id, NoId, by)

\* lines 104-105
RecomputedStatus(asgs, task_id) ==
    IF \A x \in AssignmentsOf(asgs, task_id) : asgs[x].is_completed
    THEN "DONE" ELSE "IN_PROGRESS"

complete_assignment(assignment_id, by_member_id) ==
    IF ~Exists(assignments, assignment_id)
    THEN /\ Return("complete_assignment", assignment_id, by_member_id, "none")
         /\ UNCHANGED dbvars
    ELSE LET a == assignments[assignment_id]
             task_id == a.task_id
             has_task == Exists(tasks, task_id)
             has_wallet == a.assignee_id \in DOMAIN balance
             points == IF has_task THEN tasks[task_id].points_value ELSE 0
             credit == ShouldCredit(has_task, has_wallet, points)
             done == [assignments EXCEPT ![assignment_id] = MarkCompleted(a)]
         IN IF NotAssignee(a, by_member_id)
            THEN /\ Return("complete_assignment", assignment_id, by_member_id, "none")
                 /\ UNCHANGED dbvars
            ELSE IF AlreadyCompleted(a)
            THEN /\ Return("complete_assignment", assignment_id, by_member_id, "existing")
                 /\ UNCHANGED dbvars
            ELSE /\ assignments' = done
                 /\ balance' = IF credit
                               THEN [balance EXCEPT ![a.assignee_id] = Credited(@, points)]
                               ELSE balance
                 /\ txns' = IF credit
                            THEN Append(txns, EarnTxn(a.assignee_id, points, assignment_id, by_member_id))
                            ELSE txns
                 /\ tasks' = IF has_task
                             THEN [tasks EXCEPT ![task_id].status = RecomputedStatus(done, task_id)]
                             ELSE tasks
                 /\ Return("complete_assignment", assignment_id, by_member_id, "ok")
                 /\ UNCHANGED <<rewards, redemptions>>

\* ------------------------------------------------------------ update_task
\* line 126: the editor must be a member of the task's family
EditorInFamily(editor_member_id, task) ==
    _get_member(editor_member_id) /\ family_of[editor_member_id] = task.family_id

\* the check of lines 130-134 left out
MayEdit_Always(editor_member_id, task) == TRUE

\* lines 130-132: creator, or any parent of the family
MayEdit(editor_member_id, task) ==
    \/ task.created_by_member_id = editor_member_id
    \/ role_of[editor_member_id] = "PARENT"

\* the lock of lines 136-138 left out
TaskLocked_Never(asgs, tsks, task_id) == FALSE

\* line 136 with only the status test: completed assignments do not lock
TaskLocked_DoneOnly(asgs, tsks, task_id) == tsks[task_id].status = "DONE"

\* lines 136-137
TaskLocked(asgs, tsks, task_id) ==
    \/ \E a \in AssignmentsOf(asgs, task_id) : asgs[a].is_completed
    \/ tsks[task_id].status = "DONE"

\* lines 140-147 without the "is not None" tests: every argument is stored
ApplyUpdate_Replace(task, title, description, deadline, points_value) ==
    [task EXCEPT
       !.title = title,
       !.description = description,
       !.deadline = deadline,
       !.points_value = IF points_value # NoInt THEN points_value[1] ELSE 0]

\* lines 140-147: only the arguments that are not None are applied
ApplyUpdate(task, title, description, deadline, points_value) ==
    [task EXCEPT
       !.title = IF title # None THEN title ELSE @,
       !.description = IF description # None THEN description ELSE @,
       !.deadline = IF deadline # None THEN deadline ELSE @,
       !.points_value = IF points_value # NoInt THEN points_value[1] ELSE @]

update_task(task_id, editor_member_id, title, description, deadline, points_value) ==
    IF ~Exists(tasks, task_id)
    THEN /\ ReturnWith("update_task", task_id, editor_member_id, "none",
                      <<title, description, deadline, points_value>>)
         /\ UNCHANGED dbvars
    ELSE IF ~EditorInFamily(editor_member_id, tasks[task_id])
    THEN /\ ReturnWith("update_task", task_id, editor_member_id, "none",
                      <<title, description, deadline, points_value>>)
         /\ UNCHANGED dbvars
    ELSE IF ~MayEdit(editor_member_id, tasks[task_id])
    THEN /\ ReturnWith("update_task", task_id, editor_member_id, "none",
                      <<title, description, deadline, points_value>>)
         /\ UNCHANGED dbvars
    ELSE IF TaskLocked(assignments, tasks, task_id)
    THEN /\ ReturnWith("update_task", task_id, editor_member_id, "locked",
                      <<title, description, deadline, points_value>>)
         /\ UNCHANGED dbvars
    ELSE /\ tasks' = [tasks EXCEPT ![task_id] =
                         ApplyUpdate(@, title, description, deadline, points_value)]
         /\ ReturnWith("update_task", task_id, editor_member_id, "ok",
                      <<title, description, deadline, points_value>>)
         /\ UNCHANGED <<assignments, rewards, redemptions, balance, txns>>

\* ---------------------------------------------------------- create_reward
create_reward(fam, cost) ==
    /\ Len(rewards) < MaxRewards
    /\ rewards' = Append(rewards, Reward(fam, cost))
    /\ Return("create_reward", Len(rewards) + 1, None, "ok")
    /\ UNCHANGED <<tasks, assignments, redemptions, balance, txns>>

\* ------------------------------------------------------ request_redemption
\* line 16 without the is_active test
RewardUnavailable_MissingOnly(rws, reward_id) == ~Exists(rws, reward_id)

\* line 16: if not reward or not reward.is_active
RewardUnavailable(rws, reward_id) == ~Exists(rws, reward_id) \/ ~rws[reward_id].is_active

request_redemption(reward_id, request_by_member_id) ==
    IF RewardUnavailable(rewards, reward_id)
    THEN /\ Return("request_redemption", reward_id, request_by_member_id, "none")
         /\ UNCHANGED dbvars
    ELSE /\ Len(redemptions) < MaxRedemptions
         /\ redemptions' = Append(redemptions,
                Redemption(reward_id, request_by_member_id, None, "REQUESTED", None))
         /\ Return("request_redemption", Len(redemptions) + 1, request_by_member_id, "ok")
         /\ UNCHANGED <<tasks, assignments, rewards, balance, txns>>

\* ------------------------------------------------------ approve_redemption
\* the status check of line 26 left out
NotRequested_Never(red) == FALSE

\* line 26: only a REQUESTED redemption can be approved
NotRequested(red) == red.status # "REQUESTED"

\* line 29 reading the approver's wallet instead of the requester's
RequesterWallet_Approver(red, approved_by_member_id) ==
    IF approved_by_member_id # None THEN approved_by_member_id
    ELSE red.requested_by_member_id

\* line 29: the wallet whose member_id is red.requested_by_member_id
RequesterWallet(red, approved_by_member_id) == red.requested_by_member_id

\* the balance check of line 30 left out
InsufficientFunds_Never(read_balance, cost) == FALSE

\* line 30: if wallet.balance < reward.cost_points
InsufficientFunds(read_balance, cost) == read_balance < cost

\* line 32 left out: the balance stays as read
Debited_Not(read_balance, cost) == read_balance

\* line 32: wallet.balance -= reward.cost_points, on the balance the session read
Debited(read_balance, cost) == read_balance - cost

\* lines 33-34
SpendTxn(wallet, cost, redemption_id, by) ==
    Transaction(wallet, -cost, "SPEND", NoId, redemption_id, by)

\* lines 36-37
Approved(red, approved_by_member_id) ==
    [red EXCEPT !.approved_by_member_id = approved_by_member_id, !.status = "APPROVED"]

\* lines 24-41, called as `op` on behalf of `by`
ApproveRedemption(redemption_id, approved_by_member_id, op, by) ==
    IF ~Exists(redemptions, redemption_id)
    THEN /\ Return(op, redemption_id, by, "none")
         /\ UNCHANGED dbvars
    ELSE LET red == redemptions[redemption_id]
             cost == rewards[red.reward_id].cost_points
             wallet == RequesterWallet(red, approved_by_member_id)
         IN IF NotRequested(red)
            THEN /\ Return(op, redemption_id, by, "none")
                 /\ UNCHANGED dbvars
            ELSE IF wallet \notin DOMAIN balance
            THEN /\ Return(op, redemption_id, by, "error")
                 /\ UNCHANGED dbvars
            ELSE IF InsufficientFunds(balance[wallet], cost)
            THEN /\ Return(op, redemption_id, by, "none")
                 /\ UNCHANGED dbvars
            ELSE /\ balance' = [balance EXCEPT ![wallet] = Debited(@, cost)]
                 /\ txns' = Append(txns, SpendTxn(wallet, cost, redemption_id, approved_by_member_id))
                 /\ redemptions' = [redemptions EXCEPT ![redemption_id] =
                                       Approved(@, approved_by_member_id)]
                 /\ Return(op, redemption_id, by, "ok")
                 /\ UNCHANGED <<tasks, assignments, rewards>>

approve_redemption(redemption_id, approved_by_member_id) ==
    ApproveRedemption(redemption_id, approved_by_member_id,
                      "approve_redemption", approved_by_member_id)

\* ------------------------------------- POST /redemptions/{id}/approve
\* routes/rewards.py lines 101-114: any authenticated user; the service is
\* called with approved_by_member_id=None, and None comes back as a 400
approve(redemption_id, current) ==
    ApproveRedemption(redemption_id, None, "approve", current)

\* ------------------------------------------------------ deliver_redemption
\* the status check of line 45 left out
NotApproved_Never(red) == FALSE

\* line 45: only an APPROVED redemption can be delivered
NotApproved(red) == red.status # "APPROVED"

\* lines 47-49
Delivered(red) == [red EXCEPT !.status = "REDEEMED", !.redeemed_at = "stamped"]

deliver_redemption(redemption_id) ==
    IF ~Exists(redemptions, redemption_id) \/ NotApproved(redemptions[redemption_id])
    THEN /\ Return("deliver_redemption", redemption_id, None, "none")
         /\ UNCHANGED dbvars
    ELSE /\ redemptions' = [redemptions EXCEPT ![redemption_id] = Delivered(@)]
         /\ Return("deliver_redemption", redemption_id, None, "ok")
         /\ UNCHANGED <<tasks, assignments, rewards, balance, txns>>

\* ------------------------------------------------- POST /rewards/{id}/redeem
\* lines 82-88: the redemption the route stores, already REDEEMED
InstantRedemption(reward_id, member) ==
    Redemption(reward_id, member, member, "REDEEMED", "stamped")

redeem_now(reward_id, current) ==
    IF ~Exists(rewards, reward_id)
    THEN /\ Return("redeem_now", reward_id, current, "404")
         /\ UNCHANGED dbvars
    ELSE LET reward == rewards[reward_id]
             member == ensure_member(current, reward.family_id)
         IN IF member = None \/ role_of[member] = "PARENT"
            THEN /\ Return("redeem_now", reward_id, current, "403")
                 /\ UNCHANGED dbvars
            ELSE IF member \notin DOMAIN balance
            THEN /\ Return("redeem_now", reward_id, current, "404")
                 /\ UNCHANGED dbvars
            ELSE IF InsufficientFunds(balance[member], reward.cost_points)
            THEN /\ Return("redeem_now", reward_id, current, "400")
                 /\ UNCHANGED dbvars
            ELSE /\ Len(redemptions) < MaxRedemptions
                 /\ balance' = [balance EXCEPT ![member] = Debited(@, reward.cost_points)]
                 /\ redemptions' = Append(redemptions, InstantRedemption(reward_id, member))
                 /\ Return("redeem_now", reward_id, current, "ok")
                 /\ UNCHANGED <<tasks, assignments, rewards, txns>>

Next ==
    \/ \E fam \in Families, points \in PointValues :
          \E creator \in {m \in members : family_of[m] = fam} :
             create_task(fam, "A", None, None, points, creator)
    \/ \E task_id \in TaskIds, assignee_id \in MemberIds :
          assign_task(task_id, assignee_id)
    \/ \E assignment_id \in AssignmentIds, by_member_id \in members :
          complete_assignment(assignment_id, by_member_id)
    \/ \E task_id \in TaskIds, editor_member_id \in members, p \in UpdatePayloads :
          update_task(task_id, editor_member_id, p[1], p[2], p[3], p[4])
    \/ \E fam \in Families, cost \in CostValues :
          create_reward(fam, cost)
    \/ \E reward_id \in RewardIds, request_by_member_id \in members :
          request_redemption(reward_id, request_by_member_id)
    \/ \E redemption_id \in RedemptionIds, approved_by_member_id \in Approvers :
          approve_redemption(redemption_id, approved_by_member_id)
    \/ \E redemption_id \in RedemptionIds :
          deliver_redemption(redemption_id)
    \/ \E reward_id \in RewardIds, current \in Users :
          redeem_now(reward_id, current)

Spec == Init /\ [][Next]_vars

\* ===================================================================
\* The task calls alone, update_task with every combination of passed and
\* omitted arguments (lines 116-119: each of the four defaults to None).
EditPayloads ==
    {<<title, description, deadline, points_value>> :
        title \in {None, "B"}, description \in {None, "d"},
        deadline \in {None, "soon"},
        points_value \in {NoInt} \cup {<<p>> : p \in PointValues}}

NextEdit ==
    \/ \E fam \in Families, points \in PointValues :
          \E creator \in {m \in members : family_of[m] = fam} :
             create_task(fam, "A", None, None, points, creator)
    \/ \E task_id \in TaskIds, assignee_id \in MemberIds :
          assign_task(task_id, assignee_id)
    \/ \E assignment_id \in AssignmentIds, by_member_id \in members :
          complete_assignment(assignment_id, by_member_id)
    \/ \E task_id \in TaskIds, editor_member_id \in members, p \in EditPayloads :
          update_task(task_id, editor_member_id, p[1], p[2], p[3], p[4])

SpecEdit == Init /\ [][NextEdit]_vars

\* ===================================================================
\* The reward calls as the routes serve them, on stores whose catalog may
\* hold a reward that is no longer active.  is_active is a stored column
\* (models/reward.py line 28) that request_redemption reads; no service
\* writes it after the insert, so a reward with is_active false is part of
\* the store the calls start from.
\* m2 has earned 2 points on a finished task; the catalog is empty or holds
\* one reward, active or not
InitCatalog ==
    /\ tasks = <<[Task("F1", "A", None, None, 2, "m1") EXCEPT !.status = "DONE"]>>
    /\ assignments = <<MarkCompleted(TaskAssignment(1, "m2"))>>
    /\ rewards \in {<<>>} \cup
          {<<[Reward(fam, cost) EXCEPT !.is_active = active]>> :
              fam \in Families, cost \in CostValues, active \in BOOLEAN}
    /\ redemptions = <<>>
    /\ balance = [m \in Joined |-> IF m = "m2" THEN 2 ELSE 0]
    /\ txns = <<EarnTxn("m2", 2, 1, "m2")>>
    /\ last = Call("complete_assignment", 1, "m2", "ok")
    /\ sessions = [s \in Sessions |-> IdleSession]
    /\ families = Families
    /\ members = Joined
    /\ invites = <<>>

NextCatalog ==
    \/ \E fam \in Families, cost \in CostValues :
          create_reward(fam, cost)
    \/ \E reward_id \in RewardIds, request_by_member_id \in members :
          request_redemption(reward_id, request_by_member_id)
    \/ \E redemption_id \in RedemptionIds, current \in Users :
          approve(redemption_id, current)
    \/ \E redemption_id \in RedemptionIds :
          deliver_redemption(redemption_id)
    \/ \E reward_id \in RewardIds, current \in Users :
          redeem_now(reward_id, current)

SpecCatalog == InitCatalog /\ [][NextCatalog]_vars

\* ===================================================================
\* The same calls served concurrently.  Every request runs in its own
\* session (autoflush off): a SELECT reads the committed rows, the session
\* keeps what it read, and commit() writes the changed columns with the
\* values the session computed.
\* ===================================================================

\* the request of session s returns and its session is closed
Close(s, op, id, by, res) ==
    /\ last' = Call(op, id, by, res)
    /\ sessions' = [sessions EXCEPT ![s] = IdleSession]

\* ... and its request did not touch the membership registry
Finish(s, op, id, by, res) ==
    /\ Close(s, op, id, by, res)
    /\ UNCHANGED regvars

\* The stores the concurrent runs start from.
\* (1) m1 has completed its assignment of a 2-point task, m2 still holds an
\* open one, and m1 has requested a reward costing 1 point
SeedReached ==
    /\ tasks = <<[Task("F1", "A", None, None, 2, "m1") EXCEPT !.status = "IN_PROGRESS"]>>
    /\ assignments = <<MarkCompleted(TaskAssignment(1, "m1")), TaskAssignment(1, "m2")>>
    /\ rewards = <<Reward("F1", 1)>>
    /\ redemptions = <<Redemption(1, "m1", None, "REQUESTED", None)>>
    /\ balance = [m \in Joined |-> IF m = "m1" THEN 2 ELSE 0]
    /\ txns = <<EarnTxn("m1", 2, 1, "m1")>>
    /\ last = Call("request_redemption", 1, "m1", "ok")

\* (2) a task has just been created and nobody is assigned to it
SeedOpenTask ==
    /\ tasks = <<Task("F1", "A", None, None, 2, "m1")>>
    /\ assignments = <<>>
    /\ rewards = <<>>
    /\ redemptions = <<>>
    /\ balance = [m \in Joined |-> 0]
    /\ txns = <<>>
    /\ last = Call("create_task", 1, "m1", "ok")

\* (3) m2 has earned 2 points on a first task, holds the only (open)
\* assignment of a second one, and has requested a reward costing 1 point
SeedTwoTasks ==
    /\ tasks = <<[Task("F1", "A", None, None, 2, "m1") EXCEPT !.status = "DONE"],
                 [Task("F1", "A", None, None, 2, "m1") EXCEPT !.status = "IN_PROGRESS"]>>
    /\ assignments = <<MarkCompleted(TaskAssignment(1, "m2")), TaskAssignment(2, "m2")>>
    /\ rewards = <<Reward("F1", 1)>>
    /\ redemptions = <<Redemption(1, "m2", None, "REQUESTED", None)>>
    /\ balance = [m \in Joined |-> IF m = "m2" THEN 2 ELSE 0]
    /\ txns = <<EarnTxn("m2", 2, 1, "m2")>>
    /\ last = Call("request_redemption", 1, "m2", "ok")

\* the assignments whose completion is requested concurrently: those the
\* stores above hold
SeedAssignmentIds == {1, 2}

InitConc ==
    /\ SeedReached \/ SeedOpenTask \/ SeedTwoTasks
    /\ sessions = [s \in Sessions |-> IdleSession]
    /\ families = Families
    /\ members = Joined
    /\ invites = <<>>

\* assign_task, lines 45-59: load the task and the assignee, look for an
\* assignment of the pair
as_begin(s, task_id, assignee_id) ==
    /\ sessions[s].pc = "idle"
    /\ IF ~Exists(tasks, task_id) \/ ~_get_member(assignee_id)
       THEN /\ Finish(s, "assign_task", task_id, assignee_id, "not_found")
            /\ UNCHANGED dbvars
       ELSE IF CrossFamily(assignee_id, tasks[task_id])
       THEN /\ Finish(s, "assign_task", task_id, assignee_id, "cross_family")
            /\ UNCHANGED dbvars
       ELSE IF ExistingAssignments(assignments, task_id, assignee_id) # {}
       THEN /\ Finish(s, "assign_task", task_id, assignee_id, "existing")
            /\ UNCHANGED dbvars
       ELSE /\ sessions' = [sessions EXCEPT ![s] =
                   [IdleSession EXCEPT !.pc = "as_commit", !.id = task_id,
                                       !.by = assignee_id,
                                       !.loaded_status = tasks[task_id].status]]
            /\ UNCHANGED <<dbvars, last, regvars>>

\* lines 61-65: the commit inserts the assignment and writes the status if the
\* task was OPEN when the session loaded it
as_commit(s) ==
    LET ses == sessions[s]
    IN /\ ses.pc = "as_commit"
       /\ assignments' = Append(assignments, TaskAssignment(ses.id, ses.by))
       /\ tasks' = IF StatusAfterAssign(ses.loaded_status) # ses.loaded_status
                   THEN [tasks EXCEPT ![ses.id].status = StatusAfterAssign(ses.loaded_status)]
                   ELSE tasks
       /\ Finish(s, "assign_task", ses.id, ses.by, "ok")
       /\ UNCHANGED <<rewards, redemptions, balance, txns>>

\* complete_assignment, lines 70-78: load the assignment and check it
ca_begin(s, assignment_id, by_member_id) ==
    /\ sessions[s].pc = "idle"
    /\ IF ~Exists(assignments, assignment_id)
       THEN /\ Finish(s, "complete_assignment", assignment_id, by_member_id, "none")
            /\ UNCHANGED dbvars
       ELSE IF NotAssignee(assignments[assignment_id], by_member_id)
       THEN /\ Finish(s, "complete_assignment", assignment_id, by_member_id, "none")
            /\ UNCHANGED dbvars
       ELSE IF AlreadyCompleted(assignments[assignment_id])
       THEN /\ Finish(s, "complete_assignment", assignment_id, by_member_id, "existing")
            /\ UNCHANGED dbvars
       ELSE /\ sessions' = [sessions EXCEPT ![s] =
                   [IdleSession EXCEPT !.pc = "ca_load", !.id = assignment_id,
                                       !.by = by_member_id,
                                       !.task_id = assignments[assignment_id].task_id]]
            /\ UNCHANGED <<dbvars, last, regvars>>

\* lines 85-86: load the task and the assignee's wallet
ca_load(s) ==
    LET ses == sessions[s]
        has_wallet == ses.by \in DOMAIN balance
    IN /\ ses.pc = "ca_load"
       /\ sessions' = [sessions EXCEPT ![s] =
             [ses EXCEPT !.pc = "ca_commit",
                         !.wallet = IF has_wallet THEN ses.by ELSE None,
                         !.read_balance = IF has_wallet THEN balance[ses.by] ELSE 0,
                         !.amount = tasks[ses.task_id].points_value]]
       /\ UNCHANGED <<dbvars, last, regvars>>

\* lines 81-99: the first commit writes the completion, the balance computed
\* from the balance read, and the EARN transaction
ca_commit(s) ==
    LET ses == sessions[s]
        credit == ShouldCredit(TRUE, ses.wallet # None, ses.amount)
    IN /\ ses.pc = "ca_commit"
       /\ assignments' = [assignments EXCEPT ![ses.id] = MarkCompleted(@)]
       /\ balance' = IF credit
                     THEN [balance EXCEPT ![ses.wallet] = Credited(ses.read_balance, ses.amount)]
                     ELSE balance
       /\ txns' = IF credit
                  THEN Append(txns, EarnTxn(ses.wallet, ses.amount, ses.id, ses.by))
                  ELSE txns
       /\ sessions' = [sessions EXCEPT ![s].pc = "ca_reload"]
       /\ UNCHANGED <<tasks, rewards, redemptions, last, regvars>>

\* lines 103-105: the expired task and its assignments are loaded again
ca_reload(s) ==
    LET ses == sessions[s]
    IN /\ ses.pc = "ca_reload"
       /\ sessions' = [sessions EXCEPT ![s] =
             [ses EXCEPT !.pc = "ca_status",
                         !.loaded_status = tasks[ses.task_id].status,
                         !.new_status = RecomputedStatus(assignments, ses.task_id)]]
       /\ UNCHANGED <<dbvars, last, regvars>>

\* line 106: the second commit writes the status if it differs from the one loaded
ca_status(s) ==
    LET ses == sessions[s]
    IN /\ ses.pc = "ca_status"
       /\ tasks' = IF ses.new_status # ses.loaded_status
                   THEN [tasks EXCEPT ![ses.task_id].status = ses.new_status]
                   ELSE tasks
       /\ Finish(s, "complete_assignment", ses.id, ses.by, "ok")
       /\ UNCHANGED <<assignments, rewards, redemptions, balance, txns>>

\* approve_redemption, lines 25-27: load the redemption and check its status
ar_begin(s, redemption_id, approved_by_member_id) ==
    /\ sessions[s].pc = "idle"
    /\ IF ~Exists(redemptions, redemption_id)
       THEN /\ Finish(s, "approve_redemption", redemption_id, approved_by_member_id, "none")
            /\ UNCHANGED dbvars
       ELSE IF NotRequested(redemptions[redemption_id])
       THEN /\ Finish(s, "approve_redemption", redemption_id, approved_by_member_id, "none")
            /\ UNCHANGED dbvars
       ELSE /\ sessions' = [sessions EXCEPT ![s] =
                   [IdleSession EXCEPT !.pc = "ar_load", !.id = redemption_id,
                                       !.by = approved_by_member_id]]
            /\ UNCHANGED <<dbvars, last, regvars>>

\* lines 28-31: load the reward and the requester's wallet, check the funds
ar_load(s) ==
    LET ses == sessions[s]
        red == redemptions[ses.id]
        cost == rewards[red.reward_id].cost_points
        wallet == RequesterWallet(red, ses.by)
    IN /\ ses.pc = "ar_load"
       /\ IF wallet \notin DOMAIN balance
          THEN /\ Finish(s, "approve_redemption", ses.id, ses.by, "error")
               /\ UNCHANGED dbvars
          ELSE IF InsufficientFunds(balance[wallet], cost)
          THEN /\ Finish(s, "approve_redemption", ses.id, ses.by, "none")
               /\ UNCHANGED dbvars
          ELSE /\ sessions' = [sessions EXCEPT ![s] =
                      [ses EXCEPT !.pc = "ar_commit", !.wallet = wallet,
                                !.read_balance = balance[wallet], !.amount = cost]]
               /\ UNCHANGED <<dbvars, last, regvars>>

\* lines 32-40: the commit writes the balance computed from the balance read,
\* the SPEND transaction, the approver and the APPROVED status
ar_commit(s) ==
    LET ses == sessions[s]
    IN /\ ses.pc = "ar_commit"
       /\ balance' = [balance EXCEPT ![ses.wallet] = Debited(ses.read_balance, ses.amount)]
       /\ txns' = Append(txns, SpendTxn(ses.wallet, ses.amount, ses.id, ses.by))
       /\ redemptions' = [redemptions EXCEPT ![ses.id] = Approved(@, ses.by)]
       /\ Finish(s, "approve_redemption", ses.id, ses.by, "ok")
       /\ UNCHANGED <<tasks, assignments, rewards>>

NextConc ==
    \/ \E s \in Sessions, task_id \in TaskIds, assignee_id \in MemberIds :
          as_begin(s, task_id, assignee_id)
    \/ \E s \in Sessions : as_commit(s)
    \/ \E s \in Sessions, assignment_id \in SeedAssignmentIds, by_member_id \in members :
          ca_begin(s, assignment_id, by_member_id)
    \/ \E s \in Sessions : ca_load(s)
    \/ \E s \in Sessions : ca_commit(s)
    \/ \E s \in Sessions : ca_reload(s)
    \/ \E s \in Sessions : ca_status(s)
    \/ \E s \in Sessions, redemption_id \in RedemptionIds, approved_by_member_id \in Approvers :
          ar_begin(s, redemption_id, approved_by_member_id)
    \/ \E s \in Sessions : ar_load(s)
    \/ \E s \in Sessions : ar_commit(s)

SpecConc == InitConc /\ [][NextConc]_vars

\* ===================================================================
\* The membership registry, commit by commit.  A new FamilyMember row gets
\* the id that Members holds for its (user, family); the calls tried are
\* those whose row is in Members.
\* ===================================================================
owner_of == [f \in Families |-> IF f = "F1" THEN "u1" ELSE "u3"]

\* the id of the FamilyMember row of a user in a family
MemberRow(user_id, family_id) ==
    CHOOSE m \in Members : user_of[m] = user_id /\ family_of[m] = family_id

HasRow(user_id, family_id) ==
    \E m \in Members : user_of[m] = user_id /\ family_of[m] = family_id

\* Wallet(member_id=member.id): balance defaults to 0
AddWallet(bal, m) ==
    [x \in DOMAIN bal \cup {m} |-> IF x \in DOMAIN bal THEN bal[x] ELSE 0]

FamilyInvite(family_id) == [family_id |-> family_id, used_by_user_id |-> None]

\* a session that has checked a join and is about to insert the member
Joining(pc, user_id, m, invite_id) ==
    [IdleSession EXCEPT !.pc = pc, !.by = user_id, !.wallet = m, !.id = invite_id]

InitFamily ==
    /\ tasks = <<>>
    /\ assignments = <<>>
    /\ rewards = <<>>
    /\ redemptions = <<>>
    /\ balance = [m \in {} |-> 0]
    /\ txns = <<>>
    /\ last = Call("init", NoId, None, "ok")
    /\ sessions = [s \in Sessions |-> IdleSession]
    /\ families = {}
    /\ members = {}
    /\ invites = <<>>

\* create_family, lines 16-18: the Family row is committed
cf_family(s, owner_user_id) ==
    /\ sessions[s].pc = "idle"
    /\ \E fam \in Families \ families :
          /\ owner_of[fam] = owner_user_id
          /\ families' = families \cup {fam}
          /\ sessions' = [sessions EXCEPT ![s] =
                 Joining("cf_member", owner_user_id, MemberRow(owner_user_id, fam), NoId)]
    /\ UNCHANGED <<dbvars, last, members, invites>>

\* lines 20-22: the owner's PARENT member row is committed
cf_member(s) ==
    /\ sessions[s].pc = "cf_member"
    /\ members' = members \cup {sessions[s].wallet}
    /\ sessions' = [sessions EXCEPT ![s].pc = "cf_wallet"]
    /\ UNCHANGED <<dbvars, last, families, invites>>

\* lines 24-25: the wallet is committed
cf_wallet(s) ==
    /\ sessions[s].pc = "cf_wallet"
    /\ balance' = AddWallet(balance, sessions[s].wallet)
    /\ Finish(s, "create_family", NoId, sessions[s].by, "ok")
    /\ UNCHANGED <<tasks, assignments, rewards, redemptions, txns>>

\* join_by_secret, lines 39-43: look the family up by its code, refuse a member
jb_begin(s, user_id, fam) ==
    /\ sessions[s].pc = "idle"
    /\ HasRow(user_id, fam)
    /\ IF fam \notin families \/ ensure_member(user_id, fam) # None
       THEN /\ Finish(s, "join_by_secret", NoId, user_id, "none")
            /\ UNCHANGED dbvars
       ELSE /\ sessions' = [sessions EXCEPT ![s] =
                   Joining("jb_member", user_id, MemberRow(user_id, fam), NoId)]
            /\ UNCHANGED <<dbvars, last, regvars>>

\* lines 44-46: the member row is committed; uq_member_user_family rejects it
\* if the same user joined the family meanwhile
jb_member(s) ==
    /\ sessions[s].pc = "jb_member"
    /\ IF sessions[s].wallet \in members
       THEN /\ Finish(s, "join_by_secret", NoId, sessions[s].by, "error")
            /\ UNCHANGED dbvars
       ELSE /\ members' = members \cup {sessions[s].wallet}
            /\ sessions' = [sessions EXCEPT ![s].pc = "jb_wallet"]
            /\ UNCHANGED <<dbvars, last, families, invites>>

\* lines 48-49: the wallet is committed
jb_wallet(s) ==
    /\ sessions[s].pc = "jb_wallet"
    /\ balance' = AddWallet(balance, sessions[s].wallet)
    /\ Finish(s, "join_by_secret", NoId, sessions[s].by, "ok")
    /\ UNCHANGED <<tasks, assignments, rewards, redemptions, txns>>

\* POST /families/join/secret/{code}, lines 86-91
js_begin(s, user_id, fam) ==
    /\ sessions[s].pc = "idle"
    /\ HasRow(user_id, fam)
    /\ IF fam \notin families
       THEN /\ Finish(s, "join_secret", NoId, user_id, "404")
            /\ UNCHANGED dbvars
       ELSE IF ensure_member(user_id, fam) # None
       THEN /\ Finish(s, "join_secret", NoId, user_id, "409")
            /\ UNCHANGED dbvars
       ELSE /\ sessions' = [sessions EXCEPT ![s] =
                   Joining("js_commit", user_id, MemberRow(user_id, fam), NoId)]
            /\ UNCHANGED <<dbvars, last, regvars>>

\* lines 93-96: the member is flushed and committed together with its wallet
js_commit(s) ==
    /\ sessions[s].pc = "js_commit"
    /\ IF sessions[s].wallet \in members
       THEN /\ Finish(s, "join_secret", NoId, sessions[s].by, "error")
            /\ UNCHANGED dbvars
       ELSE /\ members' = members \cup {sessions[s].wallet}
            /\ balance' = AddWallet(balance, sessions[s].wallet)
            /\ Close(s, "join_secret", NoId, sessions[s].by, "ok")
            /\ UNCHANGED <<tasks, assignments, rewards, redemptions, txns, families, invites>>

\* POST /families/{family_id}/invite, lines 75-78, and create_invite
make_invite(user_id, fam) ==
    IF ensure_member(user_id, fam) = None
       \/ role_of[ensure_member(user_id, fam)] # "PARENT"
    THEN /\ Return("make_invite", NoId, user_id, "403")
         /\ UNCHANGED dbvars
    ELSE /\ Len(invites) < MaxInvites
         /\ invites' = Append(invites, FamilyInvite(fam))
         /\ last' = Call("make_invite", Len(invites) + 1, user_id, "ok")
         /\ UNCHANGED <<dbvars, sessions, families, members>>

\* accept_invite, lines 62-71 (no invite is ever revoked and expiry is left
\* out): the invite must exist and be unused, the user must not be a member
ai_begin(s, invite_id, user_id) ==
    /\ sessions[s].pc = "idle"
    /\ Exists(invites, invite_id) => HasRow(user_id, invites[invite_id].family_id)
    /\ IF ~Exists(invites, invite_id)
       THEN /\ Finish(s, "accept_invite", invite_id, user_id, "none")
            /\ UNCHANGED dbvars
       ELSE IF invites[invite_id].used_by_user_id # None
               \/ ensure_member(user_id, invites[invite_id].family_id) # None
       THEN /\ Finish(s, "accept_invite", invite_id, user_id, "none")
            /\ UNCHANGED dbvars
       ELSE /\ sessions' = [sessions EXCEPT ![s] =
                   Joining("ai_member", user_id,
                           MemberRow(user_id, invites[invite_id].family_id), invite_id)]
            /\ UNCHANGED <<dbvars, last, regvars>>

\* lines 72-74: the member row (role defaults to CHILD) is committed
ai_member(s) ==
    /\ sessions[s].pc = "ai_member"
    /\ IF sessions[s].wallet \in members
       THEN /\ Finish(s, "accept_invite", sessions[s].id, sessions[s].by, "error")
            /\ UNCHANGED dbvars
       ELSE /\ members' = members \cup {sessions[s].wallet}
            /\ sessions' = [sessions EXCEPT ![s].pc = "ai_wallet"]
            /\ UNCHANGED <<dbvars, last, families, invites>>

\* lines 76-77: the wallet is committed
ai_wallet(s) ==
    /\ sessions[s].pc = "ai_wallet"
    /\ balance' = AddWallet(balance, sessions[s].wallet)
    /\ sessions' = [sessions EXCEPT ![s].pc = "ai_used"]
    /\ UNCHANGED <<tasks, assignments, rewards, redemptions, txns, last, regvars>>

\* lines 78-80: the invite is marked used and committed
ai_used(s) ==
    /\ sessions[s].pc = "ai_used"
    /\ invites' = [invites EXCEPT ![sessions[s].id].used_by_user_id = sessions[s].by]
    /\ Close(s, "accept_invite", sessions[s].id, sessions[s].by, "ok")
    /\ UNCHANGED <<dbvars, families, members>>

NextFamily ==
    \/ \E s \in Sessions, owner_user_id \in Users : cf_family(s, owner_user_id)
    \/ \E s \in Sessions : cf_member(s)
    \/ \E s \in Sessions : cf_wallet(s)
    \/ \E s \in Sessions, user_id \in Users, fam \in Families : jb_begin(s, user_id, fam)
    \/ \E s \in Sessions : jb_member(s)
    \/ \E s \in Sessions : jb_wallet(s)
    \/ \E s \in Sessions, user_id \in Users, fam \in Families : js_begin(s, user_id, fam)
    \/ \E s \in Sessions : js_commit(s)
    \/ \E user_id \in Users, fam \in Families : make_invite(user_id, fam)
    \/ \E s \in Sessions, invite_id \in InviteIds, user_id \in Users :
          ai_begin(s, invite_id, user_id)
    \/ \E s \in Sessions : ai_member(s)
    \/ \E s \in Sessions : ai_wallet(s)
    \/ \E s \in Sessions : ai_used(s)

SpecFamily == InitFamily /\ [][NextFamily]_vars

\* ===================================================================
\* The task life cycle in a family of three: u3 has joined F1 as well.
\* ===================================================================
InitTeam ==
    /\ tasks = <<>>
    /\ assignments = <<>>
    /\ rewards = <<>>
    /\ redemptions = <<>>
    /\ balance = [m \in Members |-> 0]
    /\ txns = <<>>
    /\ last = Call("init", NoId, None, "ok")
    /\ sessions = [s \in Sessions |-> IdleSession]
    /\ families = Families
    /\ members = Members
    /\ invites = <<>>

NextTeam ==
    \/ \E fam \in Families, points \in PointValues :
          \E creator \in {m \in members : family_of[m] = fam} :
             create_task(fam, "A", None, None, points, creator)
    \/ \E task_id \in TaskIds, assignee_id \in MemberIds :
          assign_task(task_id, assignee_id)
    \/ \E assignment_id \in AssignmentIds, by_member_id \in members :
          complete_assignment(assignment_id, by_member_id)
    \/ \E task_id \in TaskIds, editor_member_id \in members, p \in UpdatePayloads :
          update_task(task_id, editor_member_id, p[1], p[2], p[3], p[4])

SpecTeam == InitTeam /\ [][NextTeam]_vars

\* ===================================================================
\* The task calls while a user joins a family: join_by_secret commits the
\* member row (line 46) before the wallet row (line 49), and the task calls
\* of other requests are served in between.
\* ===================================================================
NextJoin ==
    \/ \E fam \in Families, points \in PointValues :
          \E creator \in {m \in members : family_of[m] = fam} :
             create_task(fam, "A", None, None, points, creator)
    \/ \E task_id \in TaskIds, assignee_id \in MemberIds :
          assign_task(task_id, assignee_id)
    \/ \E assignment_id \in AssignmentIds, by_member_id \in members :
          complete_assignment(assignment_id, by_member_id)
    \/ \E s \in Sessions, user_id \in Users, fam \in Families : jb_begin(s, user_id, fam)
    \/ \E s \in Sessions : jb_member(s)
    \/ \E s \in Sessions : jb_wallet(s)

SpecJoin == Init /\ [][NextJoin]_vars

\* ===================================================================
\* Properties
\* ===================================================================
RECURSIVE SumAmounts(_, _)
\* the sum of the amounts of the transactions of a wallet in a log
SumAmounts(log, wallet) ==
    IF log = <<>> THEN 0
    ELSE (IF Head(log).wallet_id = wallet THEN Head(log).amount ELSE 0)
         + SumAmounts(Tail(log), wallet)

\* the EARN transactions that reference an assignment
EarnsOf(assignment_id) ==
    {i \in DOMAIN txns : txns[i].type = "EARN" /\ txns[i].task_assignment_id = assignment_id}

\* the SPEND transactions that reference a redemption
SpendsOf(redemption_id) ==
    {i \in DOMAIN txns : txns[i].type = "SPEND" /\ txns[i].redemption_id = redemption_id}

\* C1: every wallet's balance equals the sum of the amounts of its
\* Transaction rows, in every state reachable by completions, approvals and
\* instant redemptions.
LedgerIntegrity ==
    \A m \in DOMAIN balance : balance[m] = SumAmounts(txns, m)

\* C2: no assignment is ever credited twice, and a complete_assignment call
\* by the assignee on an assignment that is already completed returns the
\* existing record and changes neither balances, transactions nor assignments.
NoDoubleCredit ==
    /\ [](\A a \in DOMAIN assignments : Cardinality(EarnsOf(a)) <= 1)
    /\ [][\A a \in DOMAIN assignments :
            (/\ last'.op = "complete_assignment"
             /\ last'.id = a
             /\ last'.by = assignments[a].assignee_id
             /\ assignments[a].is_completed)
            => (last'.res = "existing" /\ UNCHANGED <<balance, txns, assignments>>)]_vars

\* C2 witness: a repeated completion was answered with the existing record
\* and the assignment carries its single credit.
RepeatedCompletionSeen ==
    /\ last.op = "complete_assignment"
    /\ last.res = "existing"
    /\ Cardinality(EarnsOf(last.id)) = 1
    /\ balance[last.by] = 2

\* C4: no redemption is ever debited twice, and an approve_redemption call on
\* a redemption whose status is no longer REQUESTED fails and changes no
\* balance, transaction or redemption field.
NoDoubleDebit ==
    /\ [](\A r \in DOMAIN redemptions : Cardinality(SpendsOf(r)) <= 1)
    /\ [][\A r \in DOMAIN redemptions :
            (/\ last'.op = "approve_redemption"
             /\ last'.id = r
             /\ redemptions[r].status # "REQUESTED")
            => (last'.res = "none" /\ UNCHANGED <<balance, txns, redemptions>>)]_vars

\* C4 witness: a second approval of an approved redemption was refused and
\* the redemption carries its single debit.
SecondApprovalRefused ==
    /\ last.op = "approve_redemption"
    /\ last.res = "none"
    /\ last.id \in DOMAIN redemptions
    /\ redemptions[last.id].status = "APPROVED"
    /\ Cardinality(SpendsOf(last.id)) = 1

\* C6: approve_redemption on a REQUESTED redemption whose requester holds
\* less than the reward's cost fails and leaves balances, the transaction
\* log and the redemption (still REQUESTED) unchanged.
InsufficientFundsBlocksDebit ==
    [][\A r \in DOMAIN redemptions :
         (/\ last'.op = "approve_redemption"
          /\ last'.id = r
          /\ redemptions[r].status = "REQUESTED"
          /\ balance[redemptions[r].requested_by_member_id]
                < rewards[redemptions[r].reward_id].cost_points)
         => (/\ last'.res = "none"
             /\ UNCHANGED <<balance, txns, redemptions>>)]_vars

\* C6 witness: an approval was refused on a REQUESTED redemption whose
\* requester has earned points, but fewer than the reward costs.
ApprovalRefusedForFunds ==
    /\ last.op = "approve_redemption"
    /\ last.res = "none"
    /\ last.id \in DOMAIN redemptions
    /\ redemptions[last.id].status = "REQUESTED"
    /\ balance[redemptions[last.id].requested_by_member_id] = 2
    /\ rewards[redemptions[last.id].reward_id].cost_points = 3

\* C7: every wallet balance is >= 0 in every reachable state.
BalancesNonNegative ==
    \A m \in DOMAIN balance : balance[m] >= 0

\* a task is locked once one of its assignments is completed or it is DONE
LockedTask(t) ==
    \/ \E a \in DOMAIN assignments :
          assignments[a].task_id = t /\ assignments[a].is_completed
    \/ tasks[t].status = "DONE"

\* the editor is the task's creator or a PARENT, and a member of its family
EntitledEditor(m, t) ==
    /\ m \in members
    /\ family_of[m] = tasks[t].family_id
    /\ (tasks[t].created_by_member_id = m \/ role_of[m] = "PARENT")

\* C8 (as stated): every update_task call on a locked task fails with the
\* TaskLocked error and changes no task field, whatever the editor's role.
EditLockAlwaysTaskLocked ==
    [][\A t \in DOMAIN tasks :
         (last'.op = "update_task" /\ last'.id = t /\ LockedTask(t))
         => (last'.res = "locked" /\ UNCHANGED tasks)]_vars

\* C8 (amended): every update_task call on a locked task fails and changes no
\* task field; the failure is the TaskLocked error when the editor is the
\* creator or a PARENT of the task's family, and the null result otherwise.
EditLock ==
    [][\A t \in DOMAIN tasks :
         (last'.op = "update_task" /\ last'.id = t /\ LockedTask(t))
         => (/\ UNCHANGED tasks
             /\ last'.res = IF EntitledEditor(last'.by, t) THEN "locked" ELSE "none")]_vars

\* C8 witness: an entitled editor's update of a locked task was refused with
\* the TaskLocked error.
LockedEditRefused ==
    /\ last.op = "update_task"
    /\ last.res = "locked"
    /\ last.id \in DOMAIN tasks
    /\ LockedTask(last.id)
    /\ EntitledEditor(last.by, last.id)

\* C9: a task whose status is DONE has no uncompleted assignment.
DoneImpliesAllCompleted ==
    \A t \in DOMAIN tasks :
       tasks[t].status = "DONE"
       => \A a \in DOMAIN assignments :
             assignments[a].task_id = t => assignments[a].is_completed

\* C10: assign_task with an assignee of another family than the task's fails
\* with the cross-family error, creates no assignment and leaves the task
\* unchanged.
CrossFamilyRejected ==
    [][\A t \in DOMAIN tasks, m \in members :
         (/\ last'.op = "assign_task"
          /\ last'.id = t
          /\ last'.by = m
          /\ family_of[m] # tasks[t].family_id)
         => (last'.res = "cross_family" /\ UNCHANGED <<assignments, tasks>>)]_vars

\* C10 witness: an assignment across families was refused.
CrossFamilyRefusalSeen ==
    /\ last.op = "assign_task"
    /\ last.res = "cross_family"
    /\ last.id \in DOMAIN tasks
    /\ family_of[last.by] # tasks[last.id].family_id

\* C3: under concurrent complete_assignment calls no assignment ever has more
\* than one EARN transaction.
ConcurrentCompletionCreditsOnce ==
    \A a \in DOMAIN assignments : Cardinality(EarnsOf(a)) <= 1

\* C5: under concurrent approve_redemption calls no redemption ever has more
\* than one SPEND transaction.
ConcurrentApprovalDebitsOnce ==
    \A r \in DOMAIN redemptions : Cardinality(SpendsOf(r)) <= 1

\* C11: there is at most one TaskAssignment per (task_id, assignee_id), also
\* when assign_task calls for the same pair are served concurrently.
AssignmentUnique ==
    \A a, b \in DOMAIN assignments :
       (/\ assignments[a].task_id = assignments[b].task_id
        /\ assignments[a].assignee_id = assignments[b].assignee_id)
       => a = b

\* C15: in every committed state every FamilyMember row has its Wallet row
\* (Wallet.member_id is unique, so a member never has two).
MemberHasWallet ==
    \A m \in members : m \in DOMAIN balance

\* C16: no committed state shows every assignment of a task completed, with
\* the credits of a task that carries points applied, while the task's status
\* is not DONE.
CompletionAtomic ==
    \A t \in DOMAIN tasks :
       (/\ \E a \in DOMAIN assignments : assignments[a].task_id = t
        /\ \A a \in DOMAIN assignments :
              assignments[a].task_id = t
              => (/\ assignments[a].is_completed
                  /\ tasks[t].points_value # 0 => EarnsOf(a) # {}))
       => tasks[t].status = "DONE"

\* C17: once the concurrent requests have returned, and no completion or
\* approval was applied twice, every balance is the sum of the amounts
\* applied to its wallet (no credit or debit was overwritten).
NoLostUpdate ==
    (/\ \A s \in Sessions : sessions[s].pc = "idle"
     /\ \A a \in DOMAIN assignments : Cardinality(EarnsOf(a)) <= 1
     /\ \A r \in DOMAIN redemptions : Cardinality(SpendsOf(r)) <= 1)
    => \A m \in DOMAIN balance : balance[m] = SumAmounts(txns, m)

\* C12: when the assignee completes a not yet completed assignment of a task
\* with points_value > 0, the assignee's balance grows by exactly points_value,
\* exactly one EARN transaction of that amount referencing the assignment is
\* appended, and the task becomes DONE if no other assignment of it is open.
FirstCompletionCredit ==
    [][\A a \in DOMAIN assignments :
         LET m == assignments[a].assignee_id
             t == assignments[a].task_id
             p == tasks[t].points_value
         IN (/\ last'.op = "complete_assignment"
             /\ last'.id = a
             /\ last'.by = m
             /\ ~assignments[a].is_completed
             /\ p > 0)
            => (/\ last'.res = "ok"
                /\ assignments'[a].is_completed
                /\ balance' = [balance EXCEPT ![m] = balance[m] + p]
                /\ txns' = Append(txns,
                       [wallet_id |-> m, amount |-> p, type |-> "EARN",
                        task_assignment_id |-> a, redemption_id |-> NoId,
                        created_by_member_id |-> m])
                /\ ((\A x \in DOMAIN assignments :
                        (x # a /\ assignments[x].task_id = t)
                        => assignments[x].is_completed)
                    => tasks'[t].status = "DONE"))]_vars

\* C12 witness: the scenario of the specification with 2 points: the only
\* assignment of a 2-point task was completed, the balance went from 0 to 2,
\* one EARN of 2 exists and the task is DONE.
FirstCompletionCredited ==
    /\ last.op = "complete_assignment"
    /\ last.res = "ok"
    /\ Len(assignments) = 1
    /\ tasks[assignments[last.id].task_id].points_value = 2
    /\ tasks[assignments[last.id].task_id].status = "DONE"
    /\ balance[last.by] = 2
    /\ Len(txns) = 1
    /\ txns[1].type = "EARN"
    /\ txns[1].amount = 2

\* C13: approve_redemption on a REQUESTED redemption whose requester holds at
\* least cost_points lowers that balance by exactly cost_points, appends
\* exactly one SPEND transaction of amount -cost_points referencing the
\* redemption, and sets the status to APPROVED with the approver stamped.
SuccessfulApproval ==
    [][\A r \in DOMAIN redemptions :
         LET m == redemptions[r].requested_by_member_id
             c == rewards[redemptions[r].reward_id].cost_points
         IN (/\ last'.op = "approve_redemption"
             /\ last'.id = r
             /\ redemptions[r].status = "REQUESTED"
             /\ balance[m] >= c)
            => (/\ last'.res = "ok"
                /\ balance' = [balance EXCEPT ![m] = balance[m] - c]
                /\ txns' = Append(txns,
                       [wallet_id |-> m, amount |-> 0 - c, type |-> "SPEND",
                        task_assignment_id |-> NoId, redemption_id |-> r,
                        created_by_member_id |-> last'.by])
                /\ redemptions' = [redemptions EXCEPT
                       ![r].status = "APPROVED",
                       ![r].approved_by_member_id = last'.by])]_vars

\* C13 witness: a requester holding 2 points had a 1-point reward approved:
\* balance 1, status APPROVED, one SPEND of -1.
ApprovalDebited ==
    /\ last.op = "approve_redemption"
    /\ last.res = "ok"
    /\ redemptions[last.id].status = "APPROVED"
    /\ rewards[redemptions[last.id].reward_id].cost_points = 1
    /\ balance[redemptions[last.id].requested_by_member_id] = 1
    /\ \E i \in SpendsOf(last.id) : txns[i].amount = -1

\* C14: deliver_redemption succeeds only on an APPROVED redemption, which it
\* moves to REDEEMED; on a missing redemption or any other status it fails and
\* changes nothing; it never changes a balance or the transaction log.
DeliverOnlyApproved ==
    [][last'.op = "deliver_redemption"
       => (/\ UNCHANGED <<balance, txns>>
           /\ IF last'.id \in DOMAIN redemptions
                 /\ redemptions[last'.id].status = "APPROVED"
              THEN /\ last'.res = "ok"
                   /\ redemptions' = [redemptions EXCEPT
                          ![last'.id].status = "REDEEMED",
                          ![last'.id].redeemed_at = "stamped"]
              ELSE /\ last'.res = "none"
                   /\ UNCHANGED redemptions)]_vars

\* C14 witness: an approved (and debited) redemption was delivered.
DeliveredAfterApproval ==
    /\ last.op = "deliver_redemption"
    /\ last.res = "ok"
    /\ redemptions[last.id].status = "REDEEMED"
    /\ Cardinality(SpendsOf(last.id)) = 1
    /\ balance[redemptions[last.id].requested_by_member_id] = 1

\* C18: redeem_now checks the caller's balance against the reward's cost; with
\* enough points it debits the wallet by cost_points through the ledger (one
\* SPEND transaction) and stores a Redemption already REDEEMED; with too few
\* it fails, leaves the balance unchanged and stores no redemption.
InstantRedeem ==
    [][\A r \in DOMAIN rewards, m \in members :
         (/\ last'.op = "redeem_now"
          /\ last'.id = r
          /\ last'.by = user_of[m]
          /\ family_of[m] = rewards[r].family_id
          /\ role_of[m] = "CHILD")
         => IF balance[m] < rewards[r].cost_points
            THEN /\ last'.res = "400"
                 /\ UNCHANGED <<balance, redemptions, txns>>
            ELSE /\ last'.res = "ok"
                 /\ balance' = [balance EXCEPT ![m] = balance[m] - rewards[r].cost_points]
                 /\ redemptions' = Append(redemptions,
                        [reward_id |-> r, requested_by_member_id |-> m,
                         approved_by_member_id |-> m, status |-> "REDEEMED",
                         redeemed_at |-> "stamped"])
                 /\ Len(txns') = Len(txns) + 1
                 /\ txns'[Len(txns')].wallet_id = m
                 /\ txns'[Len(txns')].amount = 0 - rewards[r].cost_points]_vars

\* C19: a task is created OPEN; its status only moves from OPEN to
\* IN_PROGRESS (by assign_task) and from IN_PROGRESS to DONE (by a
\* complete_assignment that leaves every assignment completed); a successful
\* complete_assignment leaves it DONE exactly when all assignments are
\* completed; it never moves from DONE back to IN_PROGRESS or OPEN.
TaskStateMachine ==
    [][\A t \in DOMAIN tasks' :
         IF t \notin DOMAIN tasks
         THEN tasks'[t].status = "OPEN"
         ELSE /\ \/ tasks'[t].status = tasks[t].status
                 \/ /\ tasks[t].status = "OPEN"
                    /\ tasks'[t].status = "IN_PROGRESS"
                    /\ last'.op = "assign_task"
                 \/ /\ tasks[t].status = "IN_PROGRESS"
                    /\ tasks'[t].status = "DONE"
                    /\ last'.op = "complete_assignment"
              /\ (/\ last'.op = "complete_assignment"
                  /\ last'.res = "ok"
                  /\ assignments[last'.id].task_id = t)
                 => (tasks'[t].status = "DONE"
                     <=> \A a \in DOMAIN assignments' :
                            assignments'[a].task_id = t => assignments'[a].is_completed)]_vars

\* C20: complete_assignment by a member other than the assignee returns no
\* result and leaves the assignment, the task, every balance and the
\* transaction log unchanged.
OnlyAssigneeCompletes ==
    [][\A a \in DOMAIN assignments :
         (/\ last'.op = "complete_assignment"
          /\ last'.id = a
          /\ last'.by # assignments[a].assignee_id)
         => (/\ last'.res = "none"
             /\ UNCHANGED <<assignments, tasks, balance, txns>>)]_vars

\* C20 witness: another member of the family tried to complete an open
\* assignment of a task that carries points and was turned away.
StrangerTurnedAway ==
    /\ last.op = "complete_assignment"
    /\ last.res = "none"
    /\ last.id \in DOMAIN assignments
    /\ last.by # assignments[last.id].assignee_id
    /\ family_of[last.by] = family_of[assignments[last.id].assignee_id]
    /\ ~assignments[last.id].is_completed
    /\ tasks[assignments[last.id].task_id].points_value = 2

\* C21: update_task by an editor who is not a member of the task's family,
\* or who is neither the task's creator nor a PARENT, fails and leaves every
\* task field as it was.
UpdateNeedsEntitlement ==
    [][\A t \in DOMAIN tasks :
         (/\ last'.op = "update_task"
          /\ last'.id = t
          /\ ~EntitledEditor(last'.by, t))
         => (last'.res = "none" /\ UNCHANGED tasks)]_vars

\* C21 witness: a CHILD of the family who did not create the task asked for
\* new points on an unlocked task and was refused.
ChildEditRefused ==
    /\ last.op = "update_task"
    /\ last.res = "none"
    /\ last.id \in DOMAIN tasks
    /\ family_of[last.by] = tasks[last.id].family_id
    /\ role_of[last.by] = "CHILD"
    /\ tasks[last.id].created_by_member_id # last.by
    /\ ~LockedTask(last.id)
    /\ last.args[4] # NoInt
    /\ last.args[4][1] # tasks[last.id].points_value

\* C24: every EARN transaction has an amount > 0 (so every credit raises the
\* balance).
CreditsPositive ==
    \A i \in DOMAIN txns : txns[i].type = "EARN" => txns[i].amount > 0

\* C25: a completed assignment carries its completed_at stamp, and once an
\* assignment is completed no step sets is_completed back to false or changes
\* completed_at.
CompletionOneWay ==
    /\ [](\A a \in DOMAIN assignments :
            assignments[a].is_completed => assignments[a].completed_at # None)
    /\ [][\A a \in DOMAIN assignments :
            assignments[a].is_completed
            => (/\ a \in DOMAIN assignments'
                /\ assignments'[a].is_completed
                /\ assignments'[a].completed_at = assignments[a].completed_at)]_vars

\* C25 witness: assign_task was called again for a pair whose assignment is
\* completed; it returned the existing row, still completed and stamped.
CompletedSurvivesReassign ==
    /\ last.op = "assign_task"
    /\ last.res = "existing"
    /\ \E a \in DOMAIN assignments :
          /\ assignments[a].task_id = last.id
          /\ assignments[a].assignee_id = last.by
          /\ assignments[a].is_completed
          /\ assignments[a].completed_at = "stamped"

\* C29: every EARN transaction that references an assignment of a task has
\* the task's current points_value as its amount.
UniformPayout ==
    \A i \in DOMAIN txns :
       txns[i].type = "EARN"
       => txns[i].amount
             = tasks[assignments[txns[i].task_assignment_id].task_id].points_value

\* C29 witness: after a payout of 2 points, with another assignment of the
\* task still open, a PARENT asked for other points and the edit was refused.
PointsEditRefusedAfterPayout ==
    /\ last.op = "update_task"
    /\ last.res = "locked"
    /\ last.args[4] # NoInt
    /\ last.args[4][1] # 2
    /\ tasks[last.id].status = "IN_PROGRESS"
    /\ \E i \in DOMAIN txns :
          /\ txns[i].type = "EARN"
          /\ txns[i].amount = 2
          /\ assignments[txns[i].task_assignment_id].task_id = last.id

\* the transactions of a wallet, in order
TxnsOf(log, wallet) == SelectSeq(log, LAMBDA x : x.wallet_id = wallet)

\* every wallet but one keeps its balance and its transactions in a step
OnlyWalletChanged(wallet) ==
    /\ DOMAIN balance' = DOMAIN balance
    /\ \A m \in DOMAIN balance \ {wallet} :
          /\ balance'[m] = balance[m]
          /\ TxnsOf(txns', m) = TxnsOf(txns, m)

\* C30: complete_assignment changes only the wallet of the assignment's
\* assignee and approve_redemption only the wallet of the redemption's
\* requester; every other wallet keeps its balance and transactions.
WalletIsolation ==
    [][/\ (last'.op = "complete_assignment" /\ last'.id \in DOMAIN assignments)
          => OnlyWalletChanged(assignments[last'.id].assignee_id)
       /\ (last'.op = "approve_redemption" /\ last'.id \in DOMAIN redemptions)
          => OnlyWalletChanged(redemptions[last'.id].requested_by_member_id)]_vars

\* C30 witness: m1, holding 2 points, approved another member's redemption:
\* the requester was debited, m1 still holds its 2 points.
ApproverNotDebited ==
    /\ last.op = "approve_redemption"
    /\ last.res = "ok"
    /\ last.by = "m1"
    /\ redemptions[last.id].requested_by_member_id # "m1"
    /\ balance["m1"] = 2
    /\ SumAmounts(txns, "m1") = 2
    /\ balance[redemptions[last.id].requested_by_member_id] = 1

\* C22: a successful update_task stores exactly the arguments passed non-null
\* among title, description, deadline, points_value; every other field of
\* the task, its status, every other task, all assignments and all wallets
\* (balances and transactions) stay as they were.
PartialUpdate ==
    [][(last'.op = "update_task" /\ last'.res = "ok")
       => LET t == last'.id
              args == last'.args
          IN /\ DOMAIN tasks' = DOMAIN tasks
             /\ \A u \in DOMAIN tasks \ {t} : tasks'[u] = tasks[u]
             /\ tasks'[t].title = IF args[1] # None THEN args[1] ELSE tasks[t].title
             /\ tasks'[t].description
                   = IF args[2] # None THEN args[2] ELSE tasks[t].description
             /\ tasks'[t].deadline = IF args[3] # None THEN args[3] ELSE tasks[t].deadline
             /\ tasks'[t].points_value
                   = IF args[4] # NoInt THEN args[4][1] ELSE tasks[t].points_value
             /\ tasks'[t].status = tasks[t].status
             /\ tasks'[t].family_id = tasks[t].family_id
             /\ tasks'[t].created_by_member_id = tasks[t].created_by_member_id
             /\ UNCHANGED <<assignments, balance, txns>>]_vars

\* C22 witness: an update passing only description and points_value went
\* through on a task that an earlier edit had given a title and a deadline
\* and that has an open assignment: title and deadline are still there.
PartialEditApplied ==
    /\ last.op = "update_task"
    /\ last.res = "ok"
    /\ last.args = <<None, "d", None, <<0>>>>
    /\ tasks[last.id].title = "B"
    /\ tasks[last.id].description = "d"
    /\ tasks[last.id].deadline = "soon"
    /\ tasks[last.id].points_value = 0
    /\ tasks[last.id].status = "IN_PROGRESS"
    /\ \E a \in DOMAIN assignments :
          assignments[a].task_id = last.id /\ ~assignments[a].is_completed

\* C23: request_redemption returns no result and creates nothing when the
\* reward is missing or inactive; otherwise it appends one redemption in
\* status REQUESTED for that reward and requester; either way the balances
\* and the transaction log stay as they were.
RequestRedemptionEffect ==
    [][last'.op = "request_redemption"
       => /\ UNCHANGED <<balance, txns, rewards>>
          /\ \/ /\ last'.res = "none"
                /\ UNCHANGED redemptions
                /\ \/ last'.id \notin DOMAIN rewards
                   \/ ~rewards[last'.id].is_active
             \/ /\ last'.res = "ok"
                /\ Len(redemptions') = Len(redemptions) + 1
                /\ SubSeq(redemptions', 1, Len(redemptions)) = redemptions
                /\ LET red == redemptions'[Len(redemptions')]
                   IN /\ red.status = "REQUESTED"
                      /\ red.requested_by_member_id = last'.by
                      /\ red.approved_by_member_id = None
                      /\ red.reward_id \in DOMAIN rewards
                      /\ rewards[red.reward_id].is_active]_vars

\* C23 witness: a member of the reward's family who can afford it asked for
\* a reward that exists but is inactive and got no result.
InactiveRewardRefused ==
    /\ last.op = "request_redemption"
    /\ last.res = "none"
    /\ last.id \in DOMAIN rewards
    /\ ~rewards[last.id].is_active
    /\ family_of[last.by] = rewards[last.id].family_id
    /\ balance[last.by] >= rewards[last.id].cost_points
    /\ redemptions = <<>>

\* C27: a redemption goes from REQUESTED to APPROVED only with a recorded
\* approver who is a PARENT member of the reward's family and not the
\* requester, and through the route only when that approver is the caller.
ApprovalGated ==
    [][\A r \in DOMAIN redemptions :
          (redemptions[r].status = "REQUESTED" /\ redemptions'[r].status = "APPROVED")
          => LET approver == redemptions'[r].approved_by_member_id
                 fam == rewards[redemptions[r].reward_id].family_id
             IN /\ approver \in members
                /\ role_of[approver] = "PARENT"
                /\ family_of[approver] = fam
                /\ approver # redemptions[r].requested_by_member_id
                /\ (last'.op = "approve" => user_of[approver] = last'.by)]_vars

CompletedImpliesCredited ==
    \A a \in DOMAIN assignments :
       (/\ assignments[a].is_completed
        /\ tasks[assignments[a].task_id].points_value > 0)
       => Cardinality({i \in DOMAIN txns :
                         /\ txns[i].type = "EARN"
                         /\ txns[i].task_assignment_id = a
                         /\ txns[i].wallet_id = assignments[a].assignee_id}) = 1
====
